---------------------------- MODULE Spec2Model ----------------------------
(***************************************************************************)
(* BuildConnect backend: an Express router whose handlers forward to a     *)
(* document database (Firestore), an identity service (Firebase auth), a   *)
(* payment-order API (Razorpay) and an email relay (nodemailer).           *)
(*                                                                         *)
(* The repository holds three builds of the server: src/index.js,          *)
(* src/unnamed/part_000 and src/unnamed/part_001.  They share most routes  *)
(* and differ in create-order (validation, rounding, error passthrough),   *)
(* in create-booking (part_001 sends no email) and in the Equipment        *)
(* fields of add-listing.  `variant` says which build is running.          *)
(***************************************************************************)
EXTENDS Integers, Sequences, FiniteSets, TLC

(***************************************************************************)
(* Bounds of the model.                                                    *)
(***************************************************************************)
MaxReq == 2          \* request slots handled concurrently
MaxStarted == 3      \* requests received in one run
MaxClock == 1        \* ticks of the wall clock

Variants == {"index", "part_000", "part_001"}

(***************************************************************************)
(* IEEE-754 binary64 numbers, as far as create-order needs them.  A finite *)
(* number is sign * m * 2^exp, with m a natural below 2^MantBits written   *)
(* as a big-endian string of base-2^LimbBits digits ("limbs", TLC's        *)
(* integers being 32 bits wide), kept canonical: m is odd, or m = 0 and    *)
(* exp = 0.                                                                *)
(***************************************************************************)
MantBits == 53
LimbBits == 20
Limb == 2 ^ LimbBits
Milli == 1000        \* request amounts are decimal literals with 3 decimals
FracLimbs == 5       \* quotient limbs computed after the binary point

NaN == [k |-> "nan", neg |-> FALSE, m |-> <<>>, exp |-> 0]
Inf(neg) == [k |-> "inf", neg |-> neg, m |-> <<>>, exp |-> 0]

BitLen(n) == CHOOSE l \in 0..30 : n < 2 ^ l /\ (l = 0 \/ n >= 2 ^ (l - 1))

StripL(x) ==
  IF \A i \in 1..Len(x) : x[i] = 0 THEN <<>>
  ELSE LET f == CHOOSE i \in 1..Len(x) : x[i] # 0 /\ \A j \in 1..(i - 1) : x[j] = 0
       IN  SubSeq(x, f, Len(x))

BitLenL(x0) == LET x == StripL(x0)
               IN  IF x = <<>> THEN 0 ELSE LimbBits * (Len(x) - 1) + BitLen(x[1])

\* Limb i of x counted from the least significant one (0), 0 beyond the top.
LimbAt(x, i) == IF i >= 0 /\ i < Len(x) THEN x[Len(x) - i] ELSE 0

\* Bit n of x, counted from the least significant one (0).
BitAt(x, n) == (LimbAt(x, n \div LimbBits) \div 2 ^ (n % LimbBits)) % 2

\* x mod 2^n = 0
LowBitsZero(x, n) ==
  /\ \A i \in 0..((n \div LimbBits) - 1) : LimbAt(x, i) = 0
  /\ LimbAt(x, n \div LimbBits) % 2 ^ (n % LimbBits) = 0

\* floor(x / 2^n)
ShrL(x, n) ==
  LET q == n \div LimbBits
      r == n % LimbBits
      len == IF Len(x) > q THEN Len(x) - q ELSE 0
  IN  StripL([i \in 1..len |->
        LET j == len - i + q     \* the limb of x that lands in position i
        IN  LimbAt(x, j) \div 2 ^ r + (LimbAt(x, j + 1) % 2 ^ r) * 2 ^ (LimbBits - r)])

\* x * 2^n
ShlL(x, n) ==
  LET q == n \div LimbBits
      r == n % LimbBits
      len == Len(x) + q + 1
  IN  StripL([i \in 1..len |->
        LET j == len - i - q
        IN  (LimbAt(x, j) % 2 ^ (LimbBits - r)) * 2 ^ r
              + LimbAt(x, j - 1) \div 2 ^ (LimbBits - r)])

\* x + 1
IncL(x) ==
  LET carry(i) == \A j \in (i + 1)..Len(x) : x[j] = Limb - 1
  IN  IF carry(0) THEN <<1>> \o [i \in 1..Len(x) |-> 0]
      ELSE [i \in 1..Len(x) |-> IF carry(i) THEN (x[i] + 1) % Limb ELSE x[i]]

\* x * c for a small c (c * Limb fits an integer)
RECURSIVE MulSmallL(_, _, _)
MulSmallL(x, c, carry) ==
  IF x = <<>> THEN (IF carry = 0 THEN <<>> ELSE <<carry>>)
  ELSE LET p == x[Len(x)] * c + carry
       IN  Append(MulSmallL(SubSeq(x, 1, Len(x) - 1), c, p \div Limb), p % Limb)

\* The value of x, for x below 2^31.
ToIntL(x) == LimbAt(x, 1) * Limb + LimbAt(x, 0)

FromIntL(n) == StripL(<<n \div Limb, n % Limb>>)

Canon(neg, x0, e) ==
  LET x == StripL(x0) IN
  IF x = <<>> THEN [k |-> "fin", neg |-> neg, m |-> <<>>, exp |-> 0]
  ELSE LET tz == CHOOSE n \in 0..(LimbBits * Len(x)) :
                   LowBitsZero(x, n) /\ ~LowBitsZero(x, n + 1)
       IN  [k |-> "fin", neg |-> neg, m |-> ShrL(x, tz), exp |-> e + tz]

\* Round x * 2^e (plus a nonzero amount below its last bit when `sticky`) to
\* MantBits significant bits, ties to even.
RoundNearestEven(neg, x, e, sticky) ==
  LET l == BitLenL(x) IN
  IF l <= MantBits THEN Canon(neg, x, e)
  ELSE LET s == l - MantBits
           q == ShrL(x, s)
           half == BitAt(x, s - 1) = 1
           more == sticky \/ ~LowBitsZero(x, s - 1)
           up == half /\ (more \/ BitAt(x, s) = 1)
       IN  Canon(neg, IF up THEN IncL(q) ELSE q, e + s)

\* The limbs of r / Milli after the binary point, and whether a remainder
\* is left after the last one.
RECURSIVE FracQuot(_, _)
FracQuot(r, n) ==
  IF n = 0 THEN [q |-> <<>>, rest |-> r # 0]
  ELSE LET t == FracQuot((r * Limb) % Milli, n - 1)
       IN  [q |-> <<(r * Limb) \div Milli>> \o t.q, rest |-> t.rest]

\* JSON.parse of the decimal literal (-)milli/1000: the nearest double.
ParseDecimal(neg, milli) ==
  LET f == FracQuot(milli % Milli, FracLimbs)
  IN  RoundNearestEven(neg, FromIntL(milli \div Milli) \o f.q,
                       -(LimbBits * FracLimbs), f.rest)

\* x * 100 of JavaScript: the exact product, rounded once.
Times100(x) ==
  IF x.k = "nan" THEN NaN
  ELSE IF x.k = "inf" THEN Inf(x.neg)
  ELSE RoundNearestEven(x.neg, MulSmallL(x.m, 100, 0), x.exp, FALSE)

IsInteger(x) == x.k = "fin" /\ x.exp >= 0

\* floor(|x|) for a finite x below 2^31.
WholePart(x) == ToIntL(IF x.exp >= 0 THEN ShlL(x.m, x.exp) ELSE ShrL(x.m, -x.exp))

\* x < 1 of JavaScript (false when x is NaN).
LessThanOne(x) ==
  \/ x.k = "inf" /\ x.neg
  \/ x.k = "fin" /\ (x.neg \/ x.m = <<>> \/ BitLenL(x.m) + x.exp <= 0)

FromInt(n) == Canon(n < 0, FromIntL(IF n < 0 THEN -n ELSE n), 0)

\* Math.round: the nearest integer, a tie going towards +Infinity.
MathRound(x) ==
  IF x.k # "fin" \/ x.exp >= 0 THEN x
  ELSE LET half == BitAt(x.m, -x.exp - 1) = 1
           more == ~LowBitsZero(x.m, -x.exp - 1)
           w == WholePart(x)
       IN  IF x.neg THEN FromInt(-(w + (IF half /\ more THEN 1 ELSE 0)))
           ELSE FromInt(w + (IF half THEN 1 ELSE 0))

(***************************************************************************)
(* JavaScript values of a request body, tagged with their type.  A field   *)
(* absent from the JSON body reads as undefined.                           *)
(***************************************************************************)
Undef == [t |-> "undefined", v |-> ""]
Null == [t |-> "null", v |-> ""]
Str(s) == [t |-> "string", v |-> s]
Arr(s) == [t |-> "array", v |-> s]
Obj(s) == [t |-> "object", v |-> s]
IdStr(n) == [t |-> "id", v |-> n]        \* the string that spells the id n
Date(n) == [t |-> "date", v |-> n]       \* new Date().toISOString() at time n
NumLit(neg, milli) == [t |-> "number", v |-> [neg |-> neg, milli |-> milli, huge |-> FALSE]]
Huge == [t |-> "number", v |-> [neg |-> FALSE, milli |-> 0, huge |-> TRUE]]   \* 1e999

\* !x is false
Truthy(x) ==
  /\ x.t \notin {"undefined", "null"}
  /\ ~(x.t = "string" /\ x.v = "")
  /\ ~(x.t = "number" /\ ~x.v.huge /\ x.v.milli = 0)

(***************************************************************************)
(* State.                                                                  *)
(***************************************************************************)
VARIABLES
  variant,    \* the build that is running
  db,         \* Firestore: collection -> document id -> document or Absent
  nextId,     \* the document ids Firestore has generated so far
  accounts,   \* Firebase auth: the email of each account, indexed by uid
  now,        \* the wall clock, as last read by a handler
  started,    \* requests received so far
  req         \* the requests in flight and their responses

vars == <<variant, db, nextId, accounts, now, started, req>>

Collections == {"bookings", "users", "equipment", "materials", "contractors"}
MaxIds == 2          \* documents (and accounts) that can be created in one run
Ids == 1..MaxIds
Absent == [absent |-> TRUE]
Slots == 1..MaxReq

Exists(coll, id) == id \in Ids /\ db[coll][id] # Absent

IdleReq ==
  [route |-> "none", pc |-> "idle", in |-> Undef, calls |-> <<>>,
   id |-> 0, date |-> 0, email |-> "none", res |-> Undef,
   status |-> 0, body |-> Undef]

\* One call of an external capability, as the handler issues it.
Call(op, arg) == [op |-> op, arg |-> arg]

Receive(r, route, in) ==
  [IdleReq EXCEPT !.route = route, !.in = in]

\* res.status(s).send(b): the handler's last step.
Respond(q, s, b) == [q EXCEPT !.pc = "done", !.status = s, !.body = b]

\* The handler awaits a capability call.
Await(q, pc, call) == [q EXCEPT !.pc = pc, !.calls = Append(@, call)]

\* A request is taken by the first free slot (the slots are alike).
CanReceive(r) ==
  /\ req[r].pc = "idle"
  /\ started < MaxStarted
  /\ \A s \in 1..(r - 1) : req[s].pc # "idle"

Init ==
  /\ variant \in Variants
  /\ db = [c \in Collections |-> [i \in Ids |-> Absent]]
  /\ nextId = 1
  /\ accounts = <<>>
  /\ now = 0
  /\ started = 0
  /\ req = [r \in Slots |-> IdleReq]

(***************************************************************************)
(* Firestore, as the handlers use it.                                      *)
(***************************************************************************)
\* A document Firestore refuses to write: add() and set() throw on a field
\* whose value is undefined.
HasUndefined(doc) == \E f \in DOMAIN doc : doc[f] = Undef

DbAdd(coll, doc) == [db EXCEPT ![coll][nextId] = doc]

\* A patch names one field and its new value, or no field at all ({}).
Patch(f, v) == [f |-> f, v |-> v]
EmptyPatch == Patch("", Undef)

\* An update that keeps none of the document's other fields.
MergeReplacing(doc, patch) ==
  IF patch = EmptyPatch THEN doc
  ELSE [g \in {patch.f} |-> patch.v]

\* update() of an existing document: the patch's field replaces or joins the
\* document's.
Merge(doc, patch) ==
  IF patch = EmptyPatch THEN doc
  ELSE [g \in DOMAIN doc \cup {patch.f} |-> IF g = patch.f THEN patch.v ELSE doc[g]]

DbUpdate(coll, id, patch) == [db EXCEPT ![coll][id] = Merge(@, patch)]

DbDelete(coll, id) == [db EXCEPT ![coll][id] = Absent]

(***************************************************************************)
(* POST /api/create-booking                                                *)
(***************************************************************************)
Item1 == [name |-> "cement", quantity |-> 2]

BookingBody(u, c, t, p, s) ==
  [userId |-> u, cartItems |-> c, totalPrice |-> t, paymentDetails |-> p,
   siteLocation |-> s]

BookingBodies ==
  {BookingBody(IdStr(1), Arr(<<Item1>>), t, Obj("pay"), Obj("site")) :
     t \in {Undef, Null, NumLit(FALSE, 100000)}}
  \cup {BookingBody(IdStr(1), Arr(<<Item1>>), NumLit(FALSE, 100000), Undef, Obj("site")),
        BookingBody(Undef, Arr(<<Item1>>), NumLit(FALSE, 100000), Undef, Obj("site")),
        BookingBody(IdStr(1), Undef, NumLit(FALSE, 100000), Undef, Obj("site")),
        BookingBody(IdStr(1), Arr(<<>>), NumLit(FALSE, 100000), Undef, Obj("site")),
        BookingBody(IdStr(1), Arr(<<Item1>>), NumLit(FALSE, 100000), Undef, Undef)}

\* The validation without its length test.
BookingInvalidNoLength(b) ==
  \/ ~Truthy(b.userId)
  \/ ~Truthy(b.cartItems)
  \/ ~Truthy(b.siteLocation)

\* !userId || !cartItems || !cartItems.length || !siteLocation
BookingInvalid(b) ==
  \/ ~Truthy(b.userId)
  \/ ~Truthy(b.cartItems)
  \/ Len(b.cartItems.v) = 0
  \/ ~Truthy(b.siteLocation)

BookingDoc(b, date) ==
  [clientId |-> b.userId, items |-> b.cartItems, totalAmount |-> b.totalPrice,
   status |-> Str("Confirmed"), bookingDate |-> Date(date),
   paymentDetails |-> IF Truthy(b.paymentDetails) THEN b.paymentDetails ELSE Obj("{}"),
   siteLocation |-> b.siteLocation]

\* Whether this build sends the confirmation email.
SendsEmail(v) == v # "part_001"

\* new Date(): the clock never runs backwards.
ClockReads == now..MaxClock

CreateBookingBegin(r, bodies) ==
  /\ CanReceive(r)
  /\ \E b \in bodies, t \in ClockReads :
       LET q == Receive(r, "create-booking", b) IN
       /\ req' = [req EXCEPT ![r] =
                    IF BookingInvalid(b)
                    THEN Respond(q, 400, Str("Missing booking information."))
                    ELSE Await([q EXCEPT !.date = t], "add",
                               Call("db.add", <<"bookings", BookingDoc(b, t)>>))]
       /\ now' = IF BookingInvalid(b) THEN now ELSE t
  /\ started' = started + 1
  /\ UNCHANGED <<variant, db, nextId, accounts>>

\* bookings.add() resolved: the document is stored; the handler goes on to
\* the email step, or answers at once in the build without one.
CreateBookingAdded(r) ==
  /\ req[r].route = "create-booking" /\ req[r].pc = "add"
  /\ nextId <= MaxIds
  /\ ~HasUndefined(BookingDoc(req[r].in, req[r].date))
  /\ db' = DbAdd("bookings", BookingDoc(req[r].in, req[r].date))
  /\ nextId' = nextId + 1
  /\ LET q == [req[r] EXCEPT !.id = nextId] IN
     req' = [req EXCEPT ![r] =
               IF SendsEmail(variant)
               THEN Await([q EXCEPT !.email = "lookup"], "getUser",
                          Call("auth.getUser", q.in.userId))
               ELSE Respond(q, 201, IdStr(nextId))]
  /\ UNCHANGED <<variant, accounts, now, started>>

\* bookings.add() threw or rejected: the outer catch answers 500.
CreateBookingAddFailed(r) ==
  /\ req[r].route = "create-booking" /\ req[r].pc = "add"
  /\ req' = [req EXCEPT ![r] = Respond(@, 500, Str("Failed to create booking."))]
  /\ UNCHANGED <<variant, db, nextId, accounts, now, started>>

\* totalPrice.toLocaleString() throws on null while the message is built.
MailBuilds(b) == b.totalPrice.t \notin {"undefined", "null"}

\* getUser() resolved: the message is built and handed to sendMail, unless
\* building it throws, which the inner catch swallows.
CreateBookingUserFound(r) ==
  /\ req[r].route = "create-booking" /\ req[r].pc = "getUser"
  /\ req[r].in.userId.v \in 1..Len(accounts)
  /\ req' = [req EXCEPT ![r] =
               IF MailBuilds(@.in)
               THEN Await(@, "sendMail",
                          Call("mail.send", <<accounts[@.in.userId.v], @.id>>))
               ELSE Respond([@ EXCEPT !.email = "failed"], 201, IdStr(@.id))]
  /\ UNCHANGED <<variant, db, nextId, accounts, now, started>>

\* getUser() rejected (no such account, or the service failed).
CreateBookingUserFailed(r) ==
  /\ req[r].route = "create-booking" /\ req[r].pc = "getUser"
  /\ req' = [req EXCEPT ![r] = Respond([@ EXCEPT !.email = "failed"], 201, IdStr(@.id))]
  /\ UNCHANGED <<variant, db, nextId, accounts, now, started>>

CreateBookingMailSent(r) ==
  /\ req[r].route = "create-booking" /\ req[r].pc = "sendMail"
  /\ req' = [req EXCEPT ![r] = Respond([@ EXCEPT !.email = "sent"], 201, IdStr(@.id))]
  /\ UNCHANGED <<variant, db, nextId, accounts, now, started>>

\* A rejected sendMail that reaches the outer catch.
CreateBookingMailFailedNoCatch(r) ==
  /\ req[r].route = "create-booking" /\ req[r].pc = "sendMail"
  /\ req' = [req EXCEPT ![r] =
               Respond([@ EXCEPT !.email = "failed"], 500, Str("Failed to create booking."))]
  /\ UNCHANGED <<variant, db, nextId, accounts, now, started>>

\* A rejected sendMail that is tried again.
CreateBookingMailRetried(r) ==
  /\ req[r].route = "create-booking" /\ req[r].pc = "sendMail"
  /\ Len(req[r].calls) < 4
  /\ req' = [req EXCEPT ![r] = Await(@, "sendMail", @.calls[Len(@.calls)])]
  /\ UNCHANGED <<variant, db, nextId, accounts, now, started>>

\* sendMail() rejected: the inner catch logs it and the handler answers.
CreateBookingMailFailed(r) ==
  /\ req[r].route = "create-booking" /\ req[r].pc = "sendMail"
  /\ req' = [req EXCEPT ![r] = Respond([@ EXCEPT !.email = "failed"], 201, IdStr(@.id))]
  /\ UNCHANGED <<variant, db, nextId, accounts, now, started>>

(***************************************************************************)
(* PUT /api/bookings/:bookingId/cancel                                     *)
(***************************************************************************)
IdParams == 0..MaxIds      \* ids a caller may name; 0 is an id never generated

CancelPatch == Patch("status", Str("Cancelled"))

CancelBegin(r, ids) ==
  /\ CanReceive(r)
  /\ \E id \in ids :
       req' = [req EXCEPT ![r] =
                 Await(Receive(r, "cancel", id), "update",
                       Call("db.update", <<"bookings", id, CancelPatch>>))]
  /\ started' = started + 1
  /\ UNCHANGED <<variant, db, nextId, accounts, now>>

\* A cancel that refuses a booking which is not "Confirmed".
CancelAppliedIfConfirmed(r) ==
  /\ req[r].route = "cancel" /\ req[r].pc = "update"
  /\ Exists("bookings", req[r].in)
  /\ IF db["bookings"][req[r].in].status = Str("Confirmed")
     THEN /\ db' = DbUpdate("bookings", req[r].in, CancelPatch)
          /\ req' = [req EXCEPT ![r] =
                       Respond([@ EXCEPT !.res = Str("ok")], 200,
                               Str("Booking cancelled successfully!"))]
     ELSE /\ db' = db
          /\ req' = [req EXCEPT ![r] =
                       Respond([@ EXCEPT !.res = Str("refused")], 500,
                               Str("Failed to cancel booking."))]
  /\ UNCHANGED <<variant, nextId, accounts, now, started>>

\* A cancel written with set(..., {merge: true}): it creates the document.
CancelAppliedUpsert(r) ==
  /\ req[r].route = "cancel" /\ req[r].pc = "update"
  /\ req[r].in \in Ids
  /\ db' = IF Exists("bookings", req[r].in)
           THEN DbUpdate("bookings", req[r].in, CancelPatch)
           ELSE [db EXCEPT !["bookings"][req[r].in] = [status |-> Str("Cancelled")]]
  /\ req' = [req EXCEPT ![r] =
               Respond([@ EXCEPT !.res = Str("ok")], 200,
                       Str("Booking cancelled successfully!"))]
  /\ UNCHANGED <<variant, nextId, accounts, now, started>>

\* update() resolved: it only does so on a document that exists.
CancelApplied(r) ==
  /\ req[r].route = "cancel" /\ req[r].pc = "update"
  /\ Exists("bookings", req[r].in)
  /\ db' = DbUpdate("bookings", req[r].in, CancelPatch)
  /\ req' = [req EXCEPT ![r] =
               Respond([@ EXCEPT !.res = Str("ok")], 200,
                       Str("Booking cancelled successfully!"))]
  /\ UNCHANGED <<variant, nextId, accounts, now, started>>

\* update() rejected: the document does not exist (NOT_FOUND), or Firestore
\* could not be reached.
CancelFailed(r) ==
  /\ req[r].route = "cancel" /\ req[r].pc = "update"
  /\ \/ /\ ~Exists("bookings", req[r].in)
        /\ req' = [req EXCEPT ![r] =
                     Respond([@ EXCEPT !.res = Str("not-found")], 500,
                             Str("Failed to cancel booking."))]
     \/ req' = [req EXCEPT ![r] =
                  Respond([@ EXCEPT !.res = Str("unavailable")], 500,
                          Str("Failed to cancel booking."))]
  /\ UNCHANGED <<variant, db, nextId, accounts, now, started>>

(***************************************************************************)
(* POST /api/create-order                                                  *)
(***************************************************************************)
Amounts ==
  {Undef, Str("10"), Huge, NumLit(TRUE, 5000), NumLit(FALSE, 0),
   NumLit(FALSE, 500), NumLit(FALSE, 1000), NumLit(FALSE, 1005),
   NumLit(FALSE, 10000), NumLit(FALSE, 10005)}

\* The double a JSON number literal parses to.
AmountValue(x) == IF x.v.huge THEN Inf(FALSE) ELSE ParseDecimal(x.v.neg, x.v.milli)

\* ToNumber, which `amount * 100` applies to an operand that is no number.
ToNumber(x) ==
  IF x.t = "number" THEN AmountValue(x)
  ELSE IF x.t = "null" \/ (x.t = "string" /\ x.v = "") THEN FromInt(0)
  ELSE IF x.t = "string" /\ x.v = "10" THEN FromInt(10)
  ELSE NaN

\* This build checks the amount before it calls Razorpay.
ValidatesAmount(v) == v # "index"

\* typeof amount !== 'number' || amount < 1 || isNaN(amount)
AmountInvalid(x) ==
  \/ x.t # "number"
  \/ LessThanOne(AmountValue(x))
  \/ AmountValue(x).k = "nan"

\* options.amount
AmountInPaise(v, x) ==
  IF v = "index" THEN Times100(ToNumber(x)) ELSE MathRound(Times100(AmountValue(x)))

OrderOptions(v, x, t) == [amount |-> AmountInPaise(v, x), currency |-> "INR", receipt |-> t]

\* What razorpay.orders.create rejects with.
PayErrors == {[statusCode |-> 400, error |-> Obj("BAD_REQUEST_ERROR")],
              [statusCode |-> 0, error |-> Undef]}

CreateOrderBegin(r, amounts) ==
  /\ CanReceive(r)
  /\ \E a \in amounts, t \in ClockReads :
       LET q == Receive(r, "create-order", a)
           rejected == ValidatesAmount(variant) /\ AmountInvalid(a)
       IN
       /\ req' = [req EXCEPT ![r] =
                    IF rejected
                    THEN Respond(q, 400, Str("Invalid amount for payment."))
                    ELSE Await(q, "createOrder",
                               Call("pay.createOrder", OrderOptions(variant, a, t)))]
       /\ now' = IF rejected THEN now ELSE t
  /\ started' = started + 1
  /\ UNCHANGED <<variant, db, nextId, accounts>>

\* orders.create resolved with the order: res.json(order).
CreateOrderCreated(r) ==
  /\ req[r].route = "create-order" /\ req[r].pc = "createOrder"
  /\ LET order == [t |-> "order", v |-> req[r].calls[1].arg] IN
     req' = [req EXCEPT ![r] = Respond([@ EXCEPT !.res = order], 200, order)]
  /\ UNCHANGED <<variant, db, nextId, accounts, now, started>>

\* orders.create resolved with nothing.
CreateOrderEmpty(r) ==
  /\ req[r].route = "create-order" /\ req[r].pc = "createOrder"
  /\ req' = [req EXCEPT ![r] = Respond([@ EXCEPT !.res = Null], 500, Str("Error creating order"))]
  /\ UNCHANGED <<variant, db, nextId, accounts, now, started>>

\* The answer of this build to a rejection e of orders.create.
OrderErrorStatus(v, e) ==
  IF v = "part_000" /\ e.statusCode # 0 THEN e.statusCode ELSE 500

OrderErrorBody(v, e) ==
  IF v = "part_000" THEN e.error
  ELSE IF v = "index" THEN Str("Something went wrong")
  ELSE Str("Something went wrong with Razorpay")

CreateOrderRejected(r) ==
  /\ req[r].route = "create-order" /\ req[r].pc = "createOrder"
  /\ \E e \in PayErrors :
       req' = [req EXCEPT ![r] =
                 Respond([@ EXCEPT !.res = [t |-> "error", v |-> e]],
                         OrderErrorStatus(variant, e), OrderErrorBody(variant, e))]
  /\ UNCHANGED <<variant, db, nextId, accounts, now, started>>

(***************************************************************************)
(* PUT and DELETE /api/listing/:collectionName/:listingId                  *)
(***************************************************************************)
ListingCollections == {"equipment", "materials", "contractors"}

\* No check of the collection name.
CollectionAllowedAny(c) == c \in Collections

\* ['equipment', 'materials', 'contractors'].includes(collectionName)
CollectionAllowed(c) == c \in ListingCollections

Patches == {Patch("name", Str("renamed")), Patch("status", Str("Confirmed")), EmptyPatch}

UpdateListingBegin(r, patches) ==
  /\ CanReceive(r)
  /\ \E c \in Collections, id \in IdParams, p \in patches :
       LET q == Receive(r, "update-listing", [coll |-> c, id |-> id, patch |-> p]) IN
       req' = [req EXCEPT ![r] =
                 IF CollectionAllowed(c)
                 THEN Await(q, "update", Call("db.update", <<c, id, p>>))
                 ELSE Respond(q, 400, Str("Invalid collection specified."))]
  /\ started' = started + 1
  /\ UNCHANGED <<variant, db, nextId, accounts, now>>

\* An update written with set(..., {merge: true}): it creates the document.
UpdateListingUpsert(r) ==
  /\ req[r].route = "update-listing" /\ req[r].pc = "update"
  /\ req[r].in.id \in Ids
  /\ req[r].in.patch # EmptyPatch
  /\ db' = IF Exists(req[r].in.coll, req[r].in.id)
           THEN DbUpdate(req[r].in.coll, req[r].in.id, req[r].in.patch)
           ELSE [db EXCEPT ![req[r].in.coll][req[r].in.id] =
                   [g \in {req[r].in.patch.f} |-> req[r].in.patch.v]]
  /\ req' = [req EXCEPT ![r] = Respond(@, 200, Str("Listing updated successfully!"))]
  /\ UNCHANGED <<variant, nextId, accounts, now, started>>

\* update() resolved: the document exists and the patch names a field.
UpdateListingApplied(r) ==
  /\ req[r].route = "update-listing" /\ req[r].pc = "update"
  /\ Exists(req[r].in.coll, req[r].in.id)
  /\ req[r].in.patch # EmptyPatch
  /\ db' = DbUpdate(req[r].in.coll, req[r].in.id, req[r].in.patch)
  /\ req' = [req EXCEPT ![r] = Respond(@, 200, Str("Listing updated successfully!"))]
  /\ UNCHANGED <<variant, nextId, accounts, now, started>>

\* update() threw (empty patch) or rejected (no such document, failure).
UpdateListingFailed(r) ==
  /\ req[r].route = "update-listing" /\ req[r].pc = "update"
  /\ LET cause == IF req[r].in.patch = EmptyPatch THEN Str("empty-patch")
                  ELSE IF ~Exists(req[r].in.coll, req[r].in.id) THEN Str("not-found")
                  ELSE Str("unavailable")
     IN  req' = [req EXCEPT ![r] =
                   Respond([@ EXCEPT !.res = cause], 500,
                           Str("Failed to update listing."))]
  /\ UNCHANGED <<variant, db, nextId, accounts, now, started>>

DeleteListingBegin(r) ==
  /\ CanReceive(r)
  /\ \E c \in Collections, id \in IdParams :
       LET q == Receive(r, "delete-listing", [coll |-> c, id |-> id]) IN
       req' = [req EXCEPT ![r] =
                 IF CollectionAllowed(c)
                 THEN Await(q, "delete", Call("db.delete", <<c, id>>))
                 ELSE Respond(q, 400, Str("Invalid collection specified."))]
  /\ started' = started + 1
  /\ UNCHANGED <<variant, db, nextId, accounts, now>>

\* delete() resolved: it does so whether or not the document existed.
DeleteListingApplied(r) ==
  /\ req[r].route = "delete-listing" /\ req[r].pc = "delete"
  /\ db' = IF req[r].in.id \in Ids THEN DbDelete(req[r].in.coll, req[r].in.id) ELSE db
  /\ req' = [req EXCEPT ![r] = Respond(@, 200, Str("Listing removed successfully!"))]
  /\ UNCHANGED <<variant, nextId, accounts, now, started>>

DeleteListingFailed(r) ==
  /\ req[r].route = "delete-listing" /\ req[r].pc = "delete"
  /\ req' = [req EXCEPT ![r] = Respond(@, 500, Str("Failed to remove listing."))]
  /\ UNCHANGED <<variant, db, nextId, accounts, now, started>>

(***************************************************************************)
(* POST /api/add-listing                                                   *)
(***************************************************************************)
ListingBody(type, name, price, merchant, unit) ==
  [listingType |-> type, name |-> name, description |-> Str("40kg bag"),
   price |-> price, imageUrl |-> Str("img"), location |-> Str("Pune"),
   merchantId |-> merchant, rateType |-> Str("daily"),
   specialization |-> Str("masonry"), unit |-> unit]

ListingBodies ==
  {ListingBody(Str(k), Str("item"), NumLit(FALSE, 250000), IdStr(1), Str("bag")) :
     k \in {"Equipment", "Material", "Contractor", "Vehicle"}}
  \cup {ListingBody(Str("Material"), Undef, NumLit(FALSE, 250000), IdStr(1), Str("bag")),
        ListingBody(Str("Material"), Str("item"), NumLit(FALSE, 0), IdStr(1), Str("bag")),
        ListingBody(Str("Material"), Str("item"), Str("10"), IdStr(1), Undef)}

\* !listingType || !name || !price || !merchantId
ListingIncomplete(b) ==
  ~Truthy(b.listingType) \/ ~Truthy(b.name) \/ ~Truthy(b.price) \/ ~Truthy(b.merchantId)

ListingTypes == {"Equipment", "Material", "Contractor"}

ListingCollection(type) ==
  CASE type = "Equipment" -> "equipment"
    [] type = "Material" -> "materials"
    [] type = "Contractor" -> "contractors"

\* Number(price), as a stored value
Number(x) == [t |-> "double", v |-> ToNumber(x)]

\* dataToSave
ListingDoc(v, b) ==
  CASE b.listingType.v = "Equipment" /\ v = "index" ->
         [name |-> b.name, description |-> b.description,
          dailyRentalPrice |-> Number(b.price), imageUrl |-> b.imageUrl,
          location |-> b.location, merchantId |-> b.merchantId,
          category |-> Str("General"), availabilityStatus |-> Str("Available")]
    [] b.listingType.v = "Equipment" /\ v # "index" ->
         [name |-> b.name, description |-> b.description, rate |-> Number(b.price),
          rateType |-> b.rateType, imageUrl |-> b.imageUrl,
          location |-> b.location, merchantId |-> b.merchantId,
          category |-> Str("General"), availabilityStatus |-> Str("Available")]
    [] b.listingType.v = "Material" ->
         [name |-> b.name, specs |-> b.description, pricePerUnit |-> Number(b.price),
          imageUrl |-> b.imageUrl, merchantId |-> b.merchantId, unit |-> b.unit,
          stockQuantity |-> NumLit(FALSE, 100000)]
    [] b.listingType.v = "Contractor" ->
         [name |-> b.name, bio |-> b.description, rate |-> Number(b.price),
          profileImageUrl |-> b.imageUrl, location |-> b.location,
          merchantId |-> b.merchantId, rateType |-> b.rateType,
          specialization |-> b.specialization]

AddListingBegin(r, bodies) ==
  /\ CanReceive(r)
  /\ \E b \in bodies :
       LET q == Receive(r, "add-listing", b) IN
       req' = [req EXCEPT ![r] =
                 IF ListingIncomplete(b)
                 THEN Respond(q, 400, Str("Missing required fields."))
                 ELSE IF b.listingType.v \notin ListingTypes
                 THEN Respond(q, 400, Str("Invalid listing type."))
                 ELSE Await(q, "add",
                            Call("db.add", <<ListingCollection(b.listingType.v),
                                             ListingDoc(variant, b)>>))]
  /\ started' = started + 1
  /\ UNCHANGED <<variant, db, nextId, accounts, now>>

AddListingAdded(r) ==
  /\ req[r].route = "add-listing" /\ req[r].pc = "add"
  /\ nextId <= MaxIds
  /\ ~HasUndefined(ListingDoc(variant, req[r].in))
  /\ db' = DbAdd(ListingCollection(req[r].in.listingType.v), ListingDoc(variant, req[r].in))
  /\ nextId' = nextId + 1
  /\ req' = [req EXCEPT ![r] = Respond([@ EXCEPT !.id = nextId], 201, IdStr(nextId))]
  /\ UNCHANGED <<variant, accounts, now, started>>

\* add() threw (dataToSave holds an undefined value) or rejected.
AddListingFailed(r) ==
  /\ req[r].route = "add-listing" /\ req[r].pc = "add"
  /\ LET cause == IF HasUndefined(ListingDoc(variant, req[r].in))
                  THEN Str("undefined-value") ELSE Str("unavailable")
     IN  req' = [req EXCEPT ![r] =
                   Respond([@ EXCEPT !.res = cause], 500,
                           Str("Failed to create listing."))]
  /\ UNCHANGED <<variant, db, nextId, accounts, now, started>>

(***************************************************************************)
(* POST /api/register                                                      *)
(***************************************************************************)
RegisterBody(email, role) ==
  [email |-> email, password |-> Str("secret1"), name |-> Str("Asha"), role |-> role]

RegisterBodies ==
  {RegisterBody(Str("a@x.in"), Str("client")), RegisterBody(Str("a@x.in"), Undef),
   RegisterBody(Str("b@x.in"), Str("merchant"))}

UserDoc(b) == [name |-> b.name, email |-> b.email, role |-> b.role]

RegisterBegin(r, bodies) ==
  /\ CanReceive(r)
  /\ \E b \in bodies :
       req' = [req EXCEPT ![r] =
                 Await(Receive(r, "register", b), "createUser",
                       Call("auth.createUser", b.email))]
  /\ started' = started + 1
  /\ UNCHANGED <<variant, db, nextId, accounts, now>>

\* createUser() resolved: a new account, its uid generated by the service.
RegisterAccountCreated(r) ==
  /\ req[r].route = "register" /\ req[r].pc = "createUser"
  /\ Len(accounts) < MaxIds
  /\ \A i \in 1..Len(accounts) : accounts[i] # req[r].in.email
  /\ accounts' = Append(accounts, req[r].in.email)
  /\ LET uid == Len(accounts) + 1 IN
     req' = [req EXCEPT ![r] =
               Await([@ EXCEPT !.id = uid], "set",
                     Call("db.set", <<"users", uid, UserDoc(@.in)>>))]
  /\ UNCHANGED <<variant, db, nextId, now, started>>

\* createUser() rejected (the email is taken, the service failed).
RegisterAccountFailed(r) ==
  /\ req[r].route = "register" /\ req[r].pc = "createUser"
  /\ req' = [req EXCEPT ![r] = Respond(@, 400, Str("error.message"))]
  /\ UNCHANGED <<variant, db, nextId, accounts, now, started>>

RegisterDocSet(r) ==
  /\ req[r].route = "register" /\ req[r].pc = "set"
  /\ ~HasUndefined(UserDoc(req[r].in))
  /\ db' = [db EXCEPT !["users"][req[r].id] = UserDoc(req[r].in)]
  /\ req' = [req EXCEPT ![r] = Respond(@, 201, IdStr(@.id))]
  /\ UNCHANGED <<variant, nextId, accounts, now, started>>

\* A failed document write that deletes the account it was meant for.
RegisterDocFailedRollback(r) ==
  /\ req[r].route = "register" /\ req[r].pc = "set"
  /\ accounts' = IF req[r].id = Len(accounts)
                 THEN SubSeq(accounts, 1, Len(accounts) - 1) ELSE accounts
  /\ req' = [req EXCEPT ![r] = Respond(@, 400, Str("error.message"))]
  /\ UNCHANGED <<variant, db, nextId, now, started>>

\* set() threw (an undefined field) or rejected: the account stays.
RegisterDocFailed(r) ==
  /\ req[r].route = "register" /\ req[r].pc = "set"
  /\ req' = [req EXCEPT ![r] = Respond(@, 400, Str("error.message"))]
  /\ UNCHANGED <<variant, db, nextId, accounts, now, started>>

(***************************************************************************)
(* The reading routes: GET /api/equipment, /api/materials, /api/contractors *)
(* and GET /api/my-listings/:userId.                                       *)
(***************************************************************************)
\* The ids of a set, in the order of a query snapshot.
InOrder(S) ==
  CHOOSE s \in [1..Cardinality(S) -> S] : \A i, j \in DOMAIN s : i < j => s[i] < s[j]

\* The documents of a collection: collection(coll).get()
AllDocs(coll) == InOrder({id \in Ids : Exists(coll, id)})

\* collection(coll).where(field, '==', value).get()
Matching(coll, field, value) ==
  InOrder({id \in Ids : /\ Exists(coll, id)
                        /\ field \in DOMAIN db[coll][id]
                        /\ db[coll][id][field] = value})

\* { ...first, ...doc.data() }: a field of the document replaces one of the
\* same name written before the spread.
Spread(first, doc) ==
  [f \in DOMAIN first \cup DOMAIN doc |-> IF f \in DOMAIN doc THEN doc[f] ELSE first[f]]

\* JSON.stringify of a value: NaN and the infinities become null.
ToJson(x) == IF x.t = "double" /\ x.v.k # "fin" THEN Null ELSE x

\* res.json(list)
JsonList(items) ==
  [t |-> "list", v |-> [i \in DOMAIN items |-> [f \in DOMAIN items[i] |-> ToJson(items[i][f])]]]

\* snapshot.docs.map(doc => ({ id: doc.id, ...doc.data() }))
ListItems(coll, ids) ==
  [i \in DOMAIN ids |-> Spread([id |-> IdStr(ids[i])], db[coll][ids[i]])]

\* snap.docs.map(doc => ({ id: doc.id, collection: coll, ...doc.data() }))
TaggedItems(coll, ids) ==
  [i \in DOMAIN ids |->
     Spread([id |-> IdStr(ids[i]), collection |-> Str(coll)], db[coll][ids[i]])]

ListBegin(r) ==
  /\ CanReceive(r)
  /\ \E c \in ListingCollections :
       req' = [req EXCEPT ![r] =
                 Await(Receive(r, "list", c), "get", Call("db.get", <<c>>))]
  /\ started' = started + 1
  /\ UNCHANGED <<variant, db, nextId, accounts, now>>

ListReturned(r) ==
  /\ req[r].route = "list" /\ req[r].pc = "get"
  /\ req' = [req EXCEPT ![r] =
               Respond(@, 200, JsonList(ListItems(@.in, AllDocs(@.in))))]
  /\ UNCHANGED <<variant, db, nextId, accounts, now, started>>

ListFailed(r) ==
  /\ req[r].route = "list" /\ req[r].pc = "get"
  /\ req' = [req EXCEPT ![r] = Respond(@, 500, Str("Something went wrong"))]
  /\ UNCHANGED <<variant, db, nextId, accounts, now, started>>

UserParams == {IdStr(1), IdStr(2)}

\* The three queries are built and started together (Promise.all).
MyListingsBegin(r) ==
  /\ CanReceive(r)
  /\ \E u \in UserParams :
       LET q0 == Receive(r, "my-listings", u)
           q1 == Await(q0, "queries", Call("db.query", <<"equipment", "merchantId", u>>))
           q2 == Await(q1, "queries", Call("db.query", <<"materials", "merchantId", u>>))
       IN  req' = [req EXCEPT ![r] =
                     Await(q2, "queries",
                           Call("db.query", <<"contractors", "merchantId", u>>))]
  /\ started' = started + 1
  /\ UNCHANGED <<variant, db, nextId, accounts, now>>

\* The three queries resolved.
MyListingsReturned(r) ==
  /\ req[r].route = "my-listings" /\ req[r].pc = "queries"
  /\ LET u == req[r].in
         eqList == TaggedItems("equipment", Matching("equipment", "merchantId", u))
         matList == TaggedItems("materials", Matching("materials", "merchantId", u))
         conList == TaggedItems("contractors", Matching("contractors", "merchantId", u))
     IN  req' = [req EXCEPT ![r] =
                   Respond(@, 200, JsonList(eqList \o matList \o conList))]
  /\ UNCHANGED <<variant, db, nextId, accounts, now, started>>

\* One of the three queries rejected: Promise.all rejects.
MyListingsFailed(r) ==
  /\ req[r].route = "my-listings" /\ req[r].pc = "queries"
  /\ req' = [req EXCEPT ![r] = Respond(@, 500, Str("Failed to fetch listings."))]
  /\ UNCHANGED <<variant, db, nextId, accounts, now, started>>

(***************************************************************************)
(* GET /api/my-bookings/:userId                                            *)
(***************************************************************************)
\* The orders in which a query may return the documents of S: the ids
\* Firestore generates are random, so the snapshot's order (by id) is any
\* order with respect to the order of creation.
Snapshots(S) ==
  {s \in [1..Cardinality(S) -> S] : \A i, j \in DOMAIN s : i # j => s[i] # s[j]}

\* new Date(doc.bookingDate), in milliseconds
BookingTime(id) == db["bookings"][id].bookingDate.v

\* The list as it was returned, not sorted.
Unsorted(ids) == ids

\* bookingsList.sort((a, b) => new Date(b.bookingDate) - new Date(a.bookingDate)):
\* descending by date; the sort is stable, documents of one date keep the
\* order of the snapshot.
SortNewestFirst(ids) ==
  LET pos(id) == CHOOSE i \in DOMAIN ids : ids[i] = id IN
  CHOOSE s \in Snapshots({ids[i] : i \in DOMAIN ids}) :
    \A i, j \in DOMAIN s :
      i < j => \/ BookingTime(s[i]) > BookingTime(s[j])
               \/ BookingTime(s[i]) = BookingTime(s[j]) /\ pos(s[i]) < pos(s[j])

BookingsOf(u) ==
  {id \in Ids : Exists("bookings", id) /\ db["bookings"][id].clientId = u}

MyBookingsBegin(r) ==
  /\ CanReceive(r)
  /\ \E u \in UserParams :
       req' = [req EXCEPT ![r] =
                 Await(Receive(r, "my-bookings", u), "get",
                       Call("db.query", <<"bookings", "clientId", u>>))]
  /\ started' = started + 1
  /\ UNCHANGED <<variant, db, nextId, accounts, now>>

\* The query resolved: 200 with [] when the snapshot is empty, otherwise
\* with the sorted list.
MyBookingsReturned(r) ==
  /\ req[r].route = "my-bookings" /\ req[r].pc = "get"
  /\ \E snapshot \in Snapshots(BookingsOf(req[r].in)) :
       req' = [req EXCEPT ![r] =
                 Respond(@, 200,
                         IF snapshot = <<>> THEN JsonList(<<>>)
                         ELSE JsonList(ListItems("bookings", SortNewestFirst(snapshot))))]
  /\ UNCHANGED <<variant, db, nextId, accounts, now, started>>

MyBookingsFailed(r) ==
  /\ req[r].route = "my-bookings" /\ req[r].pc = "get"
  /\ req' = [req EXCEPT ![r] = Respond(@, 500, Str("Failed to fetch bookings."))]
  /\ UNCHANGED <<variant, db, nextId, accounts, now, started>>

(***************************************************************************)
(* The response has left the server: the slot takes the next request.      *)
(***************************************************************************)
Retire(r) ==
  /\ req[r].pc = "done"
  /\ req' = [req EXCEPT ![r] = IdleReq]
  /\ UNCHANGED <<variant, db, nextId, accounts, now, started>>

(***************************************************************************)
(* The next-state relations.  Next takes every route, each with a few      *)
(* request bodies; the relations of one area (bookings with registration,  *)
(* which creates the accounts the email step looks up; payment; listings   *)
(* with the routes that fill the other collections) take the area's routes *)
(* with all the bodies defined above.                                      *)
(***************************************************************************)
ValidBooking ==
  BookingBody(IdStr(1), Arr(<<Item1>>), NumLit(FALSE, 100000), Obj("pay"), Obj("site"))

FewBookingBodies ==
  {ValidBooking,
   BookingBody(IdStr(1), Arr(<<>>), NumLit(FALSE, 100000), Undef, Obj("site"))}

FewAmounts == {NumLit(FALSE, 500), NumLit(FALSE, 10000)}

FewPatches == {Patch("status", Str("Confirmed"))}

FewListingBodies ==
  {ListingBody(Str(k), Str("item"), NumLit(FALSE, 250000), IdStr(1), Str("bag")) :
     k \in {"Material", "Vehicle"}}

FewRegisterBodies == {RegisterBody(Str("a@x.in"), Str("client"))}

CreateBookingReturns(r) ==
  \/ CreateBookingAdded(r)
  \/ CreateBookingAddFailed(r)
  \/ CreateBookingUserFound(r)
  \/ CreateBookingUserFailed(r)
  \/ CreateBookingMailSent(r)
  \/ CreateBookingMailFailed(r)

CancelReturns(r) ==
  \/ CancelApplied(r)
  \/ CancelFailed(r)

CreateOrderReturns(r) ==
  \/ CreateOrderCreated(r)
  \/ CreateOrderEmpty(r)
  \/ CreateOrderRejected(r)

ListingReturns(r) ==
  \/ UpdateListingApplied(r)
  \/ UpdateListingFailed(r)
  \/ DeleteListingApplied(r)
  \/ DeleteListingFailed(r)
  \/ AddListingAdded(r)
  \/ AddListingFailed(r)

RegisterReturns(r) ==
  \/ RegisterAccountCreated(r)
  \/ RegisterAccountFailed(r)
  \/ RegisterDocSet(r)
  \/ RegisterDocFailed(r)

ReadReturns(r) ==
  \/ ListReturned(r)
  \/ ListFailed(r)
  \/ MyListingsReturned(r)
  \/ MyListingsFailed(r)

MyBookingsReturns(r) ==
  \/ MyBookingsReturned(r)
  \/ MyBookingsFailed(r)

Next ==
  \E r \in Slots :
    \/ CreateBookingBegin(r, FewBookingBodies)
    \/ CreateBookingReturns(r)
    \/ CancelBegin(r, IdParams)
    \/ CancelReturns(r)
    \/ CreateOrderBegin(r, FewAmounts)
    \/ CreateOrderReturns(r)
    \/ UpdateListingBegin(r, FewPatches)
    \/ DeleteListingBegin(r)
    \/ AddListingBegin(r, FewListingBodies)
    \/ ListingReturns(r)
    \/ RegisterBegin(r, FewRegisterBodies)
    \/ RegisterReturns(r)
    \/ ListBegin(r)
    \/ MyListingsBegin(r)
    \/ ReadReturns(r)
    \/ MyBookingsBegin(r)
    \/ MyBookingsReturns(r)
    \/ Retire(r)

Spec == Init /\ [][Next]_vars

BookingNext ==
  \E r \in Slots :
    \/ CreateBookingBegin(r, BookingBodies)
    \/ CreateBookingReturns(r)
    \/ CancelBegin(r, IdParams)
    \/ CancelReturns(r)
    \/ RegisterBegin(r, RegisterBodies)
    \/ RegisterReturns(r)
    \/ Retire(r)

SpecBooking == Init /\ [][BookingNext]_vars

OrderNext ==
  \E r \in Slots :
    \/ CreateOrderBegin(r, Amounts)
    \/ CreateOrderReturns(r)
    \/ Retire(r)

SpecOrder == Init /\ [][OrderNext]_vars

ListingNext ==
  \E r \in Slots :
    \/ UpdateListingBegin(r, Patches)
    \/ DeleteListingBegin(r)
    \/ AddListingBegin(r, ListingBodies)
    \/ ListingReturns(r)
    \/ RegisterBegin(r, FewRegisterBodies)
    \/ RegisterReturns(r)
    \/ CreateBookingBegin(r, {ValidBooking})
    \/ CreateBookingReturns(r)
    \/ Retire(r)

SpecListing == Init /\ [][ListingNext]_vars

\* Listings as they are created, patched, removed and read back.
CatalogBodies ==
  {ListingBody(Str("Equipment"), Str("item"), NumLit(FALSE, 250000), IdStr(1), Str("bag")),
   ListingBody(Str("Material"), Str("item"), Str("10"), IdStr(1), Str("bag")),
   ListingBody(Str("Material"), Str("item"), Str("ten"), IdStr(2), Str("bag")),
   ListingBody(Str("Contractor"), Str("item"), NumLit(FALSE, 250000), IdStr(2), Str("bag"))}

CatalogPatches ==
  {Patch("name", Str("renamed")), Patch("collection", Str("bookings")),
   Patch("merchantId", IdStr(2))}

CatalogNext ==
  \E r \in Slots :
    \/ AddListingBegin(r, CatalogBodies)
    \/ UpdateListingBegin(r, CatalogPatches)
    \/ DeleteListingBegin(r)
    \/ ListingReturns(r)
    \/ ListBegin(r)
    \/ MyListingsBegin(r)
    \/ ReadReturns(r)
    \/ Retire(r)

SpecCatalog == Init /\ [][CatalogNext]_vars

\* Bookings of two clients, as they are created, cancelled and listed.
ClientBookings ==
  {BookingBody(u, Arr(<<Item1>>), NumLit(FALSE, 100000), Obj("pay"), Obj("site")) :
     u \in UserParams}

HistoryNext ==
  \E r \in Slots :
    \/ CreateBookingBegin(r, ClientBookings)
    \/ CreateBookingReturns(r)
    \/ CancelBegin(r, Ids)
    \/ CancelReturns(r)
    \/ RegisterBegin(r, FewRegisterBodies)
    \/ RegisterReturns(r)
    \/ MyBookingsBegin(r)
    \/ MyBookingsReturns(r)
    \/ Retire(r)

SpecHistory == Init /\ [][HistoryNext]_vars

(***************************************************************************)
(* Properties.                                                             *)
(***************************************************************************)
Done(r) == req[r].pc = "done"

CountCalls(r, op) ==
  Cardinality({i \in 1..Len(req[r].calls) : req[r].calls[i].op = op})

Booking(id) == db["bookings"][id]

\* The request body lacks userId, lacks cartItems or has them empty, or lacks
\* siteLocation.
LacksBookingInformation(b) ==
  \/ b.userId = Undef
  \/ b.cartItems = Undef
  \/ b.cartItems = Arr(<<>>)
  \/ b.siteLocation = Undef

\* C1: a create-booking request without userId, without or with empty
\* cartItems, or without siteLocation is answered 400 at once, with no call
\* to the database, the identity service or the mail relay; and every Booking
\* in the store has a non-empty items list and a siteLocation.
C1_InvalidBookingRejected ==
  /\ \A r \in Slots :
       req[r].route = "create-booking" /\ LacksBookingInformation(req[r].in)
         => /\ Done(r)
            /\ req[r].status = 400
            /\ req[r].calls = <<>>
            /\ req[r].id = 0
  /\ \A id \in Ids :
       Exists("bookings", id)
         => /\ Booking(id).items.t = "array"
            /\ Len(Booking(id).items.v) > 0
            /\ Booking(id).siteLocation \notin {Undef, Null}

C1_Witness ==
  \E r \in Slots, id \in Ids :
    /\ req[r].route = "create-booking" /\ Done(r)
    /\ req[r].in.cartItems = Arr(<<>>)
    /\ req[r].status = 400
    /\ Exists("bookings", id)

\* The email step of request r fails in this step.
EmailStepFails(r) ==
  /\ req[r].route = "create-booking"
  /\ req[r].pc \in {"getUser", "sendMail"}
  /\ req'[r].email = "failed"

\* C2: once the Booking of a create-booking request is persisted, the answer
\* is 201 with the id of that Booking, given only after the email step has
\* ended; a failure of the email step (lookup or send) changes nothing in the
\* store, where the Booking stays as it was persisted, and the answer is
\* still 201 with the Booking's id.
C2_EmailFailureIgnored ==
  /\ [](\A r \in Slots :
          req[r].route = "create-booking" /\ req[r].id # 0
            => /\ req[r].pc \in {"getUser", "sendMail"} => req[r].status = 0
               /\ Exists("bookings", req[r].id)
               /\ Done(r) => /\ req[r].status = 201
                             /\ req[r].body = IdStr(req[r].id)
                             /\ req[r].email \in {"sent", "failed", "none"}
                             /\ req[r].email = "none" => ~SendsEmail(variant))
  /\ [][\A r \in Slots :
          EmailStepFails(r)
            => /\ db' = db
               /\ Booking(req[r].id).status = Str("Confirmed")
                    => Booking(req[r].id)'.status = Str("Confirmed")
               /\ req'[r].pc = "done"
               /\ req'[r].status = 201
               /\ req'[r].body = IdStr(req[r].id)]_vars

C2_Witness ==
  \E r \in Slots :
    /\ req[r].route = "create-booking" /\ Done(r)
    /\ req[r].email = "failed"
    /\ CountCalls(r, "mail.send") = 1
    /\ req[r].status = 201
    /\ Booking(req[r].id).status = Str("Confirmed")

\* The request body has userId, a non-empty cartItems and siteLocation.
HasBookingInformation(b) ==
  /\ b.userId \notin {Undef, Null}
  /\ b.cartItems.t = "array" /\ b.cartItems.v # <<>>
  /\ b.siteLocation \notin {Undef, Null}

BookingFields ==
  {"clientId", "items", "totalAmount", "status", "bookingDate", "paymentDetails",
   "siteLocation"}

\* C4: a Booking document, once created, is never deleted; its fields other
\* than status never change; its status is "Confirmed" or "Cancelled" and
\* only ever moves from "Confirmed" to "Cancelled".
C4_BookingImmutableButStatus ==
  /\ [](\A id \in Ids :
          Exists("bookings", id)
            => /\ DOMAIN Booking(id) = BookingFields
               /\ Booking(id).status \in {Str("Confirmed"), Str("Cancelled")})
  /\ [][\A id \in Ids :
          Exists("bookings", id)
            => /\ db'["bookings"][id] # Absent
               /\ DOMAIN db'["bookings"][id] = DOMAIN Booking(id)
               /\ \A f \in DOMAIN Booking(id) \ {"status"} :
                    db'["bookings"][id][f] = Booking(id)[f]
               /\ \/ db'["bookings"][id].status = Booking(id).status
                  \/ /\ Booking(id).status = Str("Confirmed")
                     /\ db'["bookings"][id].status = Str("Cancelled")]_vars

C4_Witness ==
  \E r \in Slots, id \in Ids :
    /\ Exists("bookings", id)
    /\ Booking(id).status = Str("Cancelled")
    /\ req[r].route = "update-listing" /\ Done(r)
    /\ req[r].in.coll = "bookings" /\ req[r].in.id = id

\* C5: a cancel that the database answers for a Booking that exists sets the
\* status to "Cancelled" and is answered 200, whatever the status was; on a
\* Booking already "Cancelled" it leaves the store as it is, so that two
\* cancels of one id (one after the other or concurrent) leave the store as
\* one cancel does, both answered 200.
C5_CancelIdempotent ==
  /\ [](\A r \in Slots :
          req[r].route = "cancel" /\ Done(r)
            => /\ req[r].status = 200 <=> req[r].res = Str("ok")
               /\ req[r].status = 200
                    => /\ Exists("bookings", req[r].in)
                       /\ Booking(req[r].in).status = Str("Cancelled"))
  /\ [][\A r \in Slots :
          /\ req[r].route = "cancel" /\ req[r].pc = "update" /\ req'[r].pc = "done"
          /\ Exists("bookings", req[r].in)
          /\ req'[r].res # Str("unavailable")
          => /\ req'[r].status = 200
             /\ db' = [db EXCEPT !["bookings"][req[r].in].status = Str("Cancelled")]
             /\ Booking(req[r].in).status = Str("Cancelled") => db' = db]_vars

C5_Witness ==
  \E r, s \in Slots :
    /\ r # s
    /\ req[r].route = "cancel" /\ Done(r) /\ req[r].status = 200
    /\ req[s].route = "cancel" /\ Done(s) /\ req[s].status = 200
    /\ req[r].in = req[s].in
    /\ Booking(req[r].in).status = Str("Cancelled")

\* C6: a cancel of an id under which no Booking is stored is answered 500
\* and changes nothing in the store: no document appears under that id.
C6_CancelMissingIs500 ==
  [][\A r \in Slots :
       /\ req[r].route = "cancel" /\ req[r].pc = "update" /\ req'[r].pc = "done"
       /\ ~Exists("bookings", req[r].in)
       => /\ req'[r].status = 500
          /\ db' = db]_vars

C6_Witness ==
  \E r \in Slots :
    /\ req[r].route = "cancel" /\ Done(r)
    /\ ~Exists("bookings", req[r].in)
    /\ req[r].res = Str("not-found")
    /\ req[r].status = 500

\* C7: create-order accepts an amount only when it is a finite number that
\* is at least 1; for every other amount (missing, no number, infinite,
\* below 1, zero, negative) the request is answered 400 and
\* razorpay.orders.create is not called.
C7_OnlyFiniteAtLeastOneAccepted ==
  \A r \in Slots :
    req[r].route = "create-order"
      => LET a == req[r].in
             acceptable == /\ a.t = "number"
                           /\ ~a.v.huge /\ ~a.v.neg /\ a.v.milli >= Milli
         IN  IF acceptable
             THEN Len(req[r].calls) = 1
             ELSE Done(r) /\ req[r].status = 400 /\ req[r].calls = <<>>

\* C8: the call of razorpay.orders.create for a finite amount of at least 1
\* carries an integer amount, the request's amount times 100 rounded to the
\* nearest integer: 10 gives 1000 and 10.005 gives 1001.
C8_MinorUnitsRounded ==
  \A r \in Slots :
    /\ req[r].route = "create-order" /\ req[r].calls # <<>>
    /\ req[r].in.t = "number" /\ ~req[r].in.v.huge /\ ~req[r].in.v.neg
    /\ req[r].in.v.milli >= Milli
    => LET milli == req[r].in.v.milli
           paise == req[r].calls[1].arg.amount
       IN  /\ IsInteger(paise)
           /\ 10 * WholePart(paise) - milli \in -5..5
           /\ milli = 10000 => WholePart(paise) = 1000
           /\ milli = 10005 => WholePart(paise) = 1001

\* C9: a create-order request calls razorpay.orders.create at most once;
\* when the call fails with a status code and an error payload, the answer
\* carries that status code and that payload; when it yields an order, the
\* answer is 200 with that order.
C9_PaymentOutcomeVerbatim ==
  \A r \in Slots :
    req[r].route = "create-order"
      => /\ Len(req[r].calls) <= 1
         /\ Done(r) /\ req[r].res.t = "error" /\ req[r].res.v.statusCode # 0
              => /\ req[r].status = req[r].res.v.statusCode
                 /\ req[r].body = req[r].res.v.error
         /\ Done(r) /\ req[r].res.t = "order"
              => /\ req[r].status = 200
                 /\ req[r].body = req[r].res

\* C10: a listing update or delete whose collectionName is not equipment,
\* materials or contractors is answered 400 with no database call; with one
\* of the three names the database is called once, with that collection,
\* the given id and (for an update) the given patch.  No step of a listing
\* update or delete changes the users or the bookings collection.
C10_ListingRoutesWhitelisted ==
  /\ [](\A r \in Slots :
          req[r].route \in {"update-listing", "delete-listing"}
            => IF req[r].in.coll \in {"equipment", "materials", "contractors"}
               THEN req[r].calls =
                      <<IF req[r].route = "update-listing"
                        THEN Call("db.update",
                                  <<req[r].in.coll, req[r].in.id, req[r].in.patch>>)
                        ELSE Call("db.delete", <<req[r].in.coll, req[r].in.id>>)>>
               ELSE Done(r) /\ req[r].status = 400 /\ req[r].calls = <<>>)
  /\ [][\A r \in Slots :
          /\ req[r].route \in {"update-listing", "delete-listing"}
          /\ req'[r] # req[r]
          => /\ db'["users"] = db["users"]
             /\ db'["bookings"] = db["bookings"]]_vars

C10_Witness ==
  \E r, s \in Slots :
    /\ req[r].route = "update-listing" /\ Done(r) /\ req[r].status = 400
    /\ req[r].in.coll = "bookings" /\ Exists("bookings", req[r].in.id)
    /\ req[r].in.patch = Patch("status", Str("Confirmed"))
    /\ req[s].route = "delete-listing" /\ Done(s) /\ req[s].status = 200
    /\ req[s].in.coll = "equipment"

\* C11: an add-listing request in which listingType, name, price or
\* merchantId is absent, or whose listingType is not Equipment, Material or
\* Contractor, is answered 400 without a database call; a request with the
\* four present and a recognised listingType, which the database does not
\* fail, is answered 201 with the id of the document it created.
C11_AddListingValidated ==
  \A r \in Slots :
    req[r].route = "add-listing" /\ Done(r)
      => IF \/ ListingIncomplete(req[r].in)
            \/ req[r].in.listingType.v \notin {"Equipment", "Material", "Contractor"}
         THEN req[r].status = 400 /\ req[r].calls = <<>> /\ req[r].id = 0
         ELSE \/ req[r].res = Str("unavailable")
              \/ /\ req[r].status = 201
                 /\ req[r].id \in Ids
                 /\ req[r].body = IdStr(req[r].id)

\* C12: the document add-listing creates lies in the collection of its kind
\* with the fields of its kind (Equipment: rate = Number(price) and
\* rateType; Material: specs = description and pricePerUnit =
\* Number(price); Contractor: bio = description and rate = Number(price)),
\* and GET /api/materials returns every Material listing that is still as
\* it was created, with specs equal to the submitted description and
\* pricePerUnit equal to Number(price).
C12_ListingRemappedAndReadBack ==
  [][\A r \in Slots :
       /\ /\ req[r].route = "add-listing" /\ req[r].pc = "add"
          /\ req'[r].pc = "done" /\ req'[r].status = 201
          => LET b == req[r].in
                 stored(c) == db'[c][req'[r].id]
                 has(c, f, x) == f \in DOMAIN stored(c) /\ stored(c)[f] = x
             IN  CASE b.listingType.v = "Equipment" ->
                        /\ stored("equipment") # Absent
                        /\ has("equipment", "rate", Number(b.price))
                        /\ has("equipment", "rateType", b.rateType)
                   [] b.listingType.v = "Material" ->
                        /\ stored("materials") # Absent
                        /\ has("materials", "specs", b.description)
                        /\ has("materials", "pricePerUnit", Number(b.price))
                   [] b.listingType.v = "Contractor" ->
                        /\ stored("contractors") # Absent
                        /\ has("contractors", "bio", b.description)
                        /\ has("contractors", "rate", Number(b.price))
       /\ /\ req[r].route = "list" /\ req[r].in = "materials" /\ req[r].pc = "get"
          /\ req'[r].pc = "done" /\ req'[r].status = 200
          => \A s \in Slots :
               /\ req[s].route = "add-listing" /\ Done(s) /\ req[s].status = 201
               /\ req[s].in.listingType.v = "Material"
               /\ db["materials"][req[s].id] = ListingDoc(variant, req[s].in)
               => \E i \in DOMAIN req'[r].body.v :
                    LET item == req'[r].body.v[i] IN
                    /\ item.id = IdStr(req[s].id)
                    /\ item.specs = req[s].in.description
                    /\ item.pricePerUnit = Number(req[s].in.price)]_vars

\* C13: GET /api/my-listings/:userId issues one query per listing
\* collection, filtered by merchantId; when the queries succeed, the array
\* returned has as many items as the three collections hold documents of
\* that merchant, and every item carries a collection field naming the
\* collection it was read from; when a query fails the answer is 500 and no
\* array.
C13_MyListingsTagged ==
  /\ [](\A r \in Slots :
          req[r].route = "my-listings"
            => req[r].calls =
                 <<Call("db.query", <<"equipment", "merchantId", req[r].in>>),
                   Call("db.query", <<"materials", "merchantId", req[r].in>>),
                   Call("db.query", <<"contractors", "merchantId", req[r].in>>)>>)
  /\ [][\A r \in Slots :
          req[r].route = "my-listings" /\ req[r].pc = "queries" /\ req'[r].pc = "done"
            => LET n(c) == Len(Matching(c, "merchantId", req[r].in))
                   items == req'[r].body.v
               IN  IF req'[r].status = 200
                   THEN /\ req'[r].body.t = "list"
                        /\ Len(items) = n("equipment") + n("materials") + n("contractors")
                        /\ \A i \in DOMAIN items :
                             items[i].collection =
                               Str(IF i <= n("equipment") THEN "equipment"
                                   ELSE IF i <= n("equipment") + n("materials")
                                   THEN "materials" ELSE "contractors")
                   ELSE req'[r].status = 500 /\ req'[r].body.t = "string"]_vars

\* C14: every User document is keyed by the uid of an identity account that
\* exists: a registration writes the document only after createUser has
\* made the account, and no account is ever removed.  The converse fails:
\* when the document write fails, the request is answered 400, the account
\* stays and has no User document.
C14_UserDocHasAccount ==
  /\ [](\A id \in Ids : Exists("users", id) => id \in 1..Len(accounts))
  /\ [](\A r \in Slots :
          req[r].route = "register" /\ CountCalls(r, "db.set") > 0
            => /\ req[r].calls[1].op = "auth.createUser"
               /\ req[r].id \in 1..Len(accounts)
               /\ req[r].calls[2].arg[2] = req[r].id)
  /\ [][/\ \A i \in 1..Len(accounts) :
             i <= Len(accounts') /\ accounts'[i] = accounts[i]
        /\ \A r \in Slots :
             /\ req[r].route = "register" /\ req[r].pc = "set" /\ req'[r].pc = "done"
             /\ db' = db
             => /\ req'[r].status = 400
                /\ accounts' = accounts
                /\ req[r].id \in 1..Len(accounts')]_vars

C14_Witness ==
  \E r \in Slots :
    /\ req[r].route = "register" /\ Done(r) /\ req[r].status = 400
    /\ req[r].id \in 1..Len(accounts)
    /\ accounts[req[r].id] = req[r].in.email
    /\ ~Exists("users", req[r].id)

\* C15 as claimed: GET /api/my-bookings/:userId returns exactly the
\* bookings whose clientId is userId, ordered by bookingDate descending,
\* and of two bookings of the client the one created later comes first; a
\* client without bookings gets 200 with an empty array.
C15_LaterBookingFirst ==
  [][\A r \in Slots :
       /\ req[r].route = "my-bookings" /\ req[r].pc = "get"
       /\ req'[r].pc = "done" /\ req'[r].status = 200
       => LET items == req'[r].body.v IN
          /\ {items[i].id.v : i \in DOMAIN items} = BookingsOf(req[r].in)
          /\ Len(items) = Cardinality(BookingsOf(req[r].in))
          /\ \A i, j \in DOMAIN items :
               i < j => items[i].bookingDate.v >= items[j].bookingDate.v
          /\ \A i, j \in DOMAIN items :
               items[i].id.v > items[j].id.v => i < j]_vars

\* C15 amended: GET /api/my-bookings/:userId returns exactly the bookings
\* whose clientId is userId, each once, ordered by bookingDate descending:
\* of two bookings with different bookingDate the one with the later
\* bookingDate comes first (bookings of one bookingDate come in any order);
\* a client without bookings gets 200 with an empty array.
C15_NewestBookingDateFirst ==
  [][\A r \in Slots :
       /\ req[r].route = "my-bookings" /\ req[r].pc = "get"
       /\ req'[r].pc = "done" /\ req'[r].status = 200
       => LET items == req'[r].body.v IN
          /\ req'[r].body.t = "list"
          /\ {items[i].id.v : i \in DOMAIN items} = BookingsOf(req[r].in)
          /\ Len(items) = Cardinality(BookingsOf(req[r].in))
          /\ \A i \in DOMAIN items :
               /\ items[i].clientId = req[r].in
               /\ items[i].bookingDate = Booking(items[i].id.v).bookingDate
          /\ \A i, j \in DOMAIN items :
               /\ i < j => items[i].bookingDate.v >= items[j].bookingDate.v
               /\ items[i].bookingDate.v > items[j].bookingDate.v => i < j
          /\ BookingsOf(req[r].in) = {} => items = <<>>]_vars

C15_Witness ==
  \E r \in Slots :
    /\ req[r].route = "my-bookings" /\ Done(r) /\ req[r].status = 200
    /\ Len(req[r].body.v) = 2
    /\ req[r].body.v[1].id.v = 2 /\ req[r].body.v[2].id.v = 1
    /\ req[r].body.v[1].bookingDate.v > req[r].body.v[2].bookingDate.v
    /\ req[r].body.v[1].clientId = req[r].in

\* C16: a listing update never creates a document.  A listing whose id has
\* been issued and which is absent (it was deleted) is absent in every
\* later state, whatever updates and deletes are in flight; an update that
\* returns when the listing is absent is answered 500 and changes nothing;
\* a delete that returns when the listing is absent changes nothing.
C16_DeletedListingStaysAbsent ==
  [][/\ \A c \in {"equipment", "materials", "contractors"}, id \in Ids :
          /\ ~Exists(c, id) /\ id < nextId => db'[c][id] = Absent
          /\ ~Exists(c, id) /\ db'[c][id] # Absent
               => \E r \in Slots :
                    /\ req[r].route = "add-listing" /\ req[r].pc = "add"
                    /\ req'[r].pc = "done" /\ req'[r].id = id
     /\ \A r \in Slots :
          /\ req[r].route \in {"update-listing", "delete-listing"}
          /\ req[r].pc \in {"update", "delete"} /\ req'[r].pc = "done"
          /\ ~Exists(req[r].in.coll, req[r].in.id)
          => /\ db' = db
             /\ req[r].route = "update-listing" => req'[r].status = 500]_vars

C16_Witness ==
  \E r, s \in Slots :
    /\ req[r].route = "delete-listing" /\ Done(r) /\ req[r].status = 200
    /\ req[s].route = "update-listing" /\ Done(s) /\ req[s].status = 500
    /\ req[s].res = Str("not-found")
    /\ req[s].in.coll = req[r].in.coll /\ req[s].in.id = req[r].in.id
    /\ req[r].in.id \in Ids /\ req[r].in.id < nextId
    /\ ~Exists(req[r].in.coll, req[r].in.id)

=============================================================================
